---------------------------- MODULE Spec2Model ----------------------------
(***************************************************************************)
(* Model of src/src/template.rs: the placeholder-expansion engine          *)
(* (search_replace, replace_at, Pattern::replace_at).                      *)
(*                                                                         *)
(* Strings are sequences of one-character strings, and offsets are the     *)
(* 0-based byte offsets of the Rust code (Slice(s, a, b) is s[a..b]).      *)
(* All characters used are ASCII, so byte and character offsets agree.     *)
(***************************************************************************)
EXTENDS Integers, Sequences, FiniteSets, TLC

(***************************************************************************)
(* Bounds of the model.                                                    *)
(***************************************************************************)
\* numeric payloads written in the templates are 0..MaxIndex
MaxIndex == 2
\* longest argument list handed to search_replace
MaxArgs == 2
\* most rows in the articles table
MaxRows == 2
\* how many times the caller calls search_replace again on the same buffer
MaxRuns == 1

(***************************************************************************)
(* String literals of the source.                                          *)
(***************************************************************************)
OPEN == <<"{", "{", "{">>
CLOSE == <<"}", "}", "}">>
SigilPath == <<"/">>
SigilPositional == <<"%">>
SigilArticlePos == <<"a", "r", "t", "i", "c", "l", "e", "%">>
SigilPreviewLatest == <<"p", "r", "e", "v", "i", "e", "w", "~">>
SigilArticleLatest == <<"a", "r", "t", "i", "c", "l", "e", "~">>
SigilPreviewTitle == <<"p", "r", "e", "v", "i", "e", "w", " ">>
SigilArticleTitle == <<"a", "r", "t", "i", "c", "l", "e", " ">>
MD == <<"m", "d">>
ArticleOpen == <<"<", "a", "r", "t", "i", "c", "l", "e", ">", "<", "h", "2", ">">>
ArticleMid == <<"<", "/", "h", "2", ">">>
ArticleBr == <<"<", "b", "r", "/", ">">>
ArticleClose == <<"<", "/", "a", "r", "t", "i", "c", "l", "e", ">">>
PreviewOpen == <<"<", "a", "r", "t", "i", "c", "l", "e", ">", "<", "h", "2", ">", "<", "a", " ", "h", "r", "e", "f", "=", "\"">>
PreviewHref == <<"\"", ">">>
PreviewMid == <<"<", "/", "a", ">", "<", "/", "h", "2", ">">>
Tilde == <<" ", "~">>

(***************************************************************************)
(* str and String primitives, as the standard library computes them.       *)
(***************************************************************************)
\* Option<usize>::None
None == -1

Min(S) == CHOOSE x \in S : \A y \in S : x <= y

\* s[a..b]
Slice(s, a, b) == SubSeq(s, a + 1, b)

\* str::find: the offset of the first occurrence of pat in s, or None
first_of(hits) == IF hits = {} THEN None ELSE Min(hits)

find(s, pat) == first_of({i \in 0..(Len(s) - Len(pat)) : Slice(s, i, i + Len(pat)) = pat})

\* str::starts_with
starts_with(s, p) == Len(s) >= Len(p) /\ Slice(s, 0, Len(p)) = p

\* String::replace_range(a..b, text)
replace_range(s, a, b, text) == Slice(s, 0, a) \o text \o Slice(s, b, Len(s))

Digits == <<"0", "1", "2", "3", "4", "5", "6", "7", "8", "9">>

IsDigit(c) == \E d \in 1..10 : Digits[d] = c

DigitVal(c) == (CHOOSE d \in 1..10 : Digits[d] = c) - 1

RECURSIVE DecVal(_)
DecVal(s) == IF s = <<>> THEN 0 ELSE 10 * DecVal(Slice(s, 0, Len(s) - 1)) + DigitVal(s[Len(s)])

\* <usize as FromStr>::from_str: an optional leading "+", then one or more
\* decimal digits.  (The values of this model stay far below usize::MAX, so
\* the overflow error of from_str is not reachable here.)
parse_digits(body) ==
    IF body # <<>> /\ \A i \in 1..Len(body) : IsDigit(body[i])
    THEN [ok |-> TRUE, val |-> DecVal(body)]
    ELSE [ok |-> FALSE, val |-> 0]

ParseUsize(s) == parse_digits(IF s # <<>> /\ s[1] = "+" THEN Tail(s) ELSE s)


(***************************************************************************)
(* State.                                                                  *)
(***************************************************************************)
VARIABLES
    input,            \* the buffer search_replace mutates in place
    args,             \* the caller's positional arguments
    articles,         \* the rows of the articles table, in storage order
    overflow_checks,  \* the build: TRUE when integer overflow panics (debug)
    pc,               \* "scanning" | "done" | "error" | "panic"
    result,           \* the error search_replace returned (NoError until then)
    calls,            \* collaborator calls made by the current call, in order
    input0,           \* the buffer as the current call received it
    last,             \* what the most recent loop iteration did
    runs,             \* completed calls of search_replace on this buffer
    spliced           \* the splices the current call has made, in order

vars == <<input, args, articles, overflow_checks, pc, result, calls, input0, last, runs, spliced>>

(***************************************************************************)
(* Collaborators: filesystem, sandbox, markup renderer, storage.           *)
(***************************************************************************)
HiTxt == <<"h", "i", ".", "t", "x", "t">>
NoteMd == <<"n", ".", "m", "d">>
GoneTxt == <<"g", "o", "n", "e", ".", "t", "x", "t">>
EscapePath == <<".", ".", "/", "x">>
BracePath == <<"a", "}">>
DTxt == <<"d", ".", "t", "x", "t">>
HiBody == <<"H", "I">>
NoteBody == <<"#", " ", "T">>
BraceBody == <<"B", "R">>
DBody == <<"{", "{">>
ITxt == <<"i", ".", "t", "x", "t">>
IBody == OPEN \o SigilPath \o HiTxt \o CLOSE
Root == <<"p", "u", "b", "/">>
DotDot == <<".", ".">>
H1Open == <<"<", "h", "1", ">">>
H1Close == <<"<", "/", "h", "1", ">", "\n">>
POpen == <<"<", "p", ">">>
PClose == <<"<", "/", "p", ">", "\n">>
Hash == <<"#", " ">>
DatePrefix == <<"2", "0", "2", "0", "-", "0", "1", "-", "0">>

\* the files on disk, by resolved path
Files ==
    {[path |-> Root \o HiTxt, text |-> HiBody],
     [path |-> Root \o NoteMd, text |-> NoteBody],
     [path |-> Root \o BracePath, text |-> BraceBody],
     [path |-> Root \o DTxt, text |-> DBody],
     [path |-> Root \o ITxt, text |-> IBody]}

\* Path::exists
exists(path) == \E f \in Files : f.path = path

\* fs::read_to_string of an existing file
read_to_string(path) == (CHOOSE f \in Files : f.path = path).text

\* PublicPath::try_from: a path that stays under the public root is
\* resolved against it, one that escapes it is rejected
PublicPath_try_from(p) ==
    IF find(p, DotDot) # None
    THEN [ok |-> FALSE, path |-> p]
    ELSE [ok |-> TRUE, path |-> Root \o p]

last_of(hits) == IF hits = {} THEN 0 ELSE CHOOSE i \in hits : \A j \in hits : j <= i

\* the 1-based position of the last c in s, 0 when there is none
LastIndexOf(s, c) == last_of({i \in 1..Len(s) : s[i] = c})

\* Path::extension: the part of the file name after its last ".", if the
\* name has one that is not its first character
extension_at(name, dot) ==
    IF dot <= 1
    THEN [some |-> FALSE, ext |-> <<>>]
    ELSE [some |-> TRUE, ext |-> Slice(name, dot, Len(name))]

extension_of(name) == extension_at(name, LastIndexOf(name, "."))

extension(path) == extension_of(Slice(path, LastIndexOf(path, "/"), Len(path)))

is_md(path) == extension(path) = [some |-> TRUE, ext |-> MD]

\* md::html::push_html over md::Parser: an ATX heading line becomes <h1>,
\* any other line a paragraph
push_html(text) ==
    IF starts_with(text, Hash)
    THEN H1Open \o Slice(text, Len(Hash), Len(text)) \o H1Close
    ELSE POpen \o text \o PClose

\* to_char(cdate, 'yyyy-mm-dd') for the days 1..9 of one month
to_char(cdate) == DatePrefix \o <<Digits[cdate + 1]>>

\* every order of the table's rows that "order by cdate" can return
OrderByCdate(table) ==
    LET n == Len(table)
        perms == {f \in [1..n -> 1..n] : \A i, j \in 1..n : i # j => f[i] # f[j]}
        sorted == {f \in perms : \A i, j \in 1..n : i < j => table[f[i]].cdate <= table[f[j]].cdate}
    IN  {[i \in 1..n |-> table[f[i]]] : f \in sorted}

\* the rows "where <col> = $1" selects, in storage order
SelectWhere(table, col, key) == SelectSeq(table, LAMBDA r : r[col] = key)

(***************************************************************************)
(* Values the resolver passes around.                                      *)
(***************************************************************************)
NoError == [kind |-> "None", path |-> <<>>]
Error(kind, path) == [kind |-> kind, path |-> path]

Call(op, arg, ok) == [op |-> op, arg |-> arg, ok |-> ok]

\* Result<String> of one arm of Pattern::replace_at, with the calls it made;
\* "panic" is the unwinding of the task
Resolved(text, cs) == [status |-> "ok", text |-> text, err |-> NoError, calls |-> cs]
Failed(err, cs) == [status |-> "err", text |-> <<>>, err |-> err, calls |-> cs]
Panicked(cs) == [status |-> "panic", text |-> <<>>, err |-> NoError, calls |-> cs]

\* a tokio_postgres Row: the record and the columns the query selected
Row(rec, cols) == [rec |-> rec, cols |-> cols]

\* Row::get panics on a column the query did not select
has_column(row, col) == col \in row.cols

row_get(row, col) ==
    IF col = "date" THEN to_char(row.rec.cdate) ELSE row.rec[col]

\* pos - 1 on usize: overflow panics under overflow checks and wraps
\* otherwise; usize::MAX is kept as its representative -1 modulo 2^64
sub1_overflows(n) == n = 0 /\ overflow_checks
sub1(n) == n - 1

\* slice indexing and slice::get: an index is in bounds iff it is in 0..len-1
in_bounds(seq, i) == i >= 0 /\ i < Len(seq)


(***************************************************************************)
(* Pattern::replace_at, one operator per arm.  env.up tells whether the    *)
(* storage answers this iteration's query, env.rows is what an             *)
(* "order by cdate" query returns.                                         *)
(***************************************************************************)
\* enum Pattern
Pattern(tag, str, num) == [tag |-> tag, str |-> str, num |-> num]

\* a resolver that renders every file it reads, whatever its extension
render_always(path, text, cs) ==
    Resolved(push_html(text), Append(cs, Call("render", text, TRUE)))

\* if path.extension() == Some("md") { push_html } else { text }
render_if_md(path, text, cs) ==
    IF is_md(path)
    THEN Resolved(push_html(text), Append(cs, Call("render", text, TRUE)))
    ELSE Resolved(text, cs)

\* fs::read_to_string(&path).await? of the Path and Positional arms
read_validated(p, v) ==
    IF ~v.ok THEN Failed(Error("InvalidPath", p), <<Call("sandbox", p, FALSE)>>)
    ELSE IF ~exists(v.path)
    THEN Failed(Error("Io", v.path), <<Call("sandbox", p, TRUE), Call("read", v.path, FALSE)>>)
    ELSE render_if_md(v.path, read_to_string(v.path),
                      <<Call("sandbox", p, TRUE), Call("read", v.path, TRUE)>>)

\* PublicPath::try_from(path)?, then the read and the rendering (the
\* Positional arm repeats the statements of the Path arm)
read_rendered(p) == read_validated(p, PublicPath_try_from(p))

\* if path.exists() { read, render } else { Err(ResourceNotFound(path)) }
contents_validated(p, v) ==
    IF ~v.ok THEN Failed(Error("InvalidPath", p), <<Call("sandbox", p, FALSE)>>)
    ELSE IF ~exists(v.path)
    THEN Failed(Error("ResourceNotFound", v.path),
                <<Call("sandbox", p, TRUE), Call("exists", v.path, FALSE)>>)
    ELSE render_if_md(v.path, read_to_string(v.path),
                      <<Call("sandbox", p, TRUE), Call("exists", v.path, TRUE),
                        Call("read", v.path, TRUE)>>)

\* the and_then closure of the three article arms
article_contents(p) == contents_validated(p, PublicPath_try_from(p))

\* format!("<article><h2>{}</h2>{} ~{}<br/>{}</article>", title, date, author, contents)
format_article(row, contents) ==
    ArticleOpen \o row_get(row, "title") \o ArticleMid \o row_get(row, "date") \o Tilde
        \o row_get(row, "author") \o ArticleBr \o contents \o ArticleClose

\* format!("<article><h2><a href=\"{}\">{}</a></h2>{} ~{}</article>", path, title, date, author)
format_preview(row) ==
    PreviewOpen \o row_get(row, "path") \o PreviewHref \o row_get(row, "title") \o PreviewMid
        \o row_get(row, "date") \o Tilde \o row_get(row, "author") \o ArticleClose

\* the calls of a step that ran after the query
after_query(call, body) == [body EXCEPT !.calls = <<call>> \o @]

\* the map_ok of the article arms: every column it reads must be selected
article_markup(row, body) ==
    IF body.status # "ok" THEN body
    ELSE IF ~(has_column(row, "title") /\ has_column(row, "date") /\ has_column(row, "author"))
    THEN Panicked(body.calls)
    ELSE Resolved(format_article(row, body.text), body.calls)

\* a preview that also fetches the article's body, as the full article does
preview_reading_body(row, cs) ==
    Resolved(format_preview(row), cs \o article_contents(row_get(row, "path")).calls)

\* the map of the preview arms
preview_markup(row, cs) ==
    IF ~(has_column(row, "path") /\ has_column(row, "title")
            /\ has_column(row, "date") /\ has_column(row, "author"))
    THEN Panicked(cs)
    ELSE Resolved(format_preview(row), cs)

\* let path = article.get("path"), then the closure's body and the map_ok
article_of_row(row, call) ==
    IF ~has_column(row, "path") THEN Panicked(<<call>>)
    ELSE article_markup(row, after_query(call, article_contents(row_get(row, "path"))))

\* a lookup that takes the first of the matching rows
first_row(hits, key, cols, up) ==
    [ok |-> up /\ Len(hits) >= 1,
     call |-> Call("query_one", key, up /\ Len(hits) >= 1),
     row |-> IF up /\ Len(hits) >= 1 THEN Row(hits[1], cols) ELSE Row(<<>>, {})]

\* the row count Client::query_one accepts: exactly one
one_row(hits, key, cols, up) ==
    [ok |-> up /\ Len(hits) = 1,
     call |-> Call("query_one", key, up /\ Len(hits) = 1),
     row |-> IF up /\ Len(hits) = 1 THEN Row(hits[1], cols) ELSE Row(<<>>, {})]

\* Client::query_one
query_one(col, key, cols, env) == one_row(SelectWhere(articles, col, key), key, cols, env.up)

\* a lookup that takes no row for an error, as query_one does
opt_row_required(hits, key, cols, up) ==
    [ok |-> up /\ Len(hits) = 1,
     call |-> Call("query_opt", key, up /\ Len(hits) = 1),
     some |-> up /\ Len(hits) = 1,
     row |-> IF up /\ Len(hits) = 1 THEN Row(hits[1], cols) ELSE Row(<<>>, {})]

\* the row count Client::query_opt accepts: none or one
opt_row(hits, key, cols, up) ==
    [ok |-> up /\ Len(hits) <= 1,
     call |-> Call("query_opt", key, up /\ Len(hits) <= 1),
     some |-> up /\ Len(hits) = 1,
     row |-> IF up /\ Len(hits) = 1 THEN Row(hits[1], cols) ELSE Row(<<>>, {})]

\* Client::query_opt
query_opt(col, key, cols, env) == opt_row(SelectWhere(articles, col, key), key, cols, env.up)

\* a query without its "order by": the rows as the table stores them
query_unordered(cols, env) ==
    [ok |-> env.up,
     call |-> Call("query", <<>>, env.up),
     rows |-> IF env.up THEN [i \in 1..Len(articles) |-> Row(articles[i], cols)] ELSE <<>>]

\* Client::query of all rows "order by cdate"
query_ordered(cols, env) ==
    [ok |-> env.up,
     call |-> Call("query", <<>>, env.up),
     rows |-> IF env.up THEN [i \in 1..Len(env.rows) |-> Row(env.rows[i], cols)] ELSE <<>>]

\* Pattern::Path(path)
PathArm(path) == read_rendered(path)

\* an index that forgets the arguments are numbered from 1: &args[pos]
PositionalIndex_from0(pos) == pos

\* the index of &args[pos - 1]
PositionalIndex(pos) == sub1(pos)

\* Pattern::Positional(pos)
PositionalArm(pos, a) ==
    IF sub1_overflows(pos) \/ ~in_bounds(a, PositionalIndex(pos)) THEN Panicked(<<>>)
    ELSE read_rendered(a[PositionalIndex(pos) + 1])

\* the ArticlePositional arm once the query has answered
article_by_path(q, path) ==
    IF ~q.ok THEN Failed(Error("Storage", path), <<q.call>>)
    ELSE article_markup(q.row, after_query(q.call, article_contents(path)))

\* the columns of the ArticlePositional arm's select
ArticlePositionalColumns == {"title", "date", "author"}

\* Pattern::ArticlePositional(pos)
ArticlePositionalArm(pos, a, env) ==
    IF sub1_overflows(pos) \/ ~in_bounds(a, sub1(pos)) THEN Panicked(<<>>)
    ELSE article_by_path(query_one("path", a[sub1(pos) + 1], ArticlePositionalColumns, env),
                         a[sub1(pos) + 1])

\* rows.get(no - 1) of the PreviewLatest arm and what is made of it
preview_nth(q, no) ==
    IF ~q.ok THEN Failed(Error("Storage", <<>>), <<q.call>>)
    ELSE IF sub1_overflows(no) THEN Panicked(<<q.call>>)
    ELSE IF ~in_bounds(q.rows, sub1(no)) THEN Resolved(<<>>, <<q.call>>)
    ELSE preview_markup(q.rows[sub1(no) + 1], <<q.call>>)

\* Pattern::PreviewLatest(no)
PreviewLatestArm(no, env) ==
    preview_nth(query_ordered({"title", "path", "date", "author"}, env), no)

\* rows.get(no - 1) of the ArticleLatest arm and what is made of it
article_nth(q, no) ==
    IF ~q.ok THEN Failed(Error("Storage", <<>>), <<q.call>>)
    ELSE IF sub1_overflows(no) THEN Panicked(<<q.call>>)
    ELSE IF ~in_bounds(q.rows, sub1(no)) THEN Resolved(<<>>, <<q.call>>)
    ELSE article_of_row(q.rows[sub1(no) + 1], q.call)

\* Pattern::ArticleLatest(no)
ArticleLatestArm(no, env) ==
    article_nth(query_ordered({"path", "title", "date", "author"}, env), no)

\* the PreviewTitle arm once the query has answered
preview_opt(q, title) ==
    IF ~q.ok THEN Failed(Error("Storage", title), <<q.call>>)
    ELSE IF ~q.some THEN Resolved(<<>>, <<q.call>>)
    ELSE preview_markup(q.row, <<q.call>>)

\* Pattern::PreviewTitle(title)
PreviewTitleArm(title, env) ==
    preview_opt(query_opt("title", title, {"title", "path", "date", "author"}, env), title)

\* the ArticleTitle arm once the query has answered
article_by_title(q, title) ==
    IF ~q.ok THEN Failed(Error("Storage", title), <<q.call>>)
    ELSE article_of_row(q.row, q.call)

\* the columns of the ArticleTitle arm's select: "path" is not among them
ArticleTitleColumns == {"title", "date", "author"}

\* Pattern::ArticleTitle(title)
ArticleTitleArm(title, env) ==
    article_by_title(query_one("title", title, ArticleTitleColumns, env), title)

\* let text = match self { ... }
resolve(pat, a, env) ==
    CASE pat.tag = "Path" -> PathArm(pat.str)
      [] pat.tag = "Positional" -> PositionalArm(pat.num, a)
      [] pat.tag = "ArticlePositional" -> ArticlePositionalArm(pat.num, a, env)
      [] pat.tag = "PreviewLatest" -> PreviewLatestArm(pat.num, env)
      [] pat.tag = "ArticleLatest" -> ArticleLatestArm(pat.num, env)
      [] pat.tag = "PreviewTitle" -> PreviewTitleArm(pat.str, env)
      [] pat.tag = "ArticleTitle" -> ArticleTitleArm(pat.str, env)

\* what one call of replace_at leaves behind: status "ok" (spliced), "noop"
\* (Ok(()) with the buffer untouched), "err" or "panic"
Outcome(status, inp, r, pat, start, end) ==
    [status |-> status, input |-> inp, text |-> r.text, err |-> r.err, calls |-> r.calls,
     pat |-> pat, start |-> start, end |-> end]

\* a resolver that cuts the placeholder out before it resolves it
buffer_cut_on_failure(inp, start, end) == replace_range(inp, start, end + 3, <<>>)

\* the buffer an iteration that fails or panics leaves behind: the `?` and
\* the unwinding both leave before input.replace_range is reached
buffer_on_failure(inp, start, end) == inp

\* a splice that stops at the closing delimiter: start..end
splice_to_close(inp, start, end, text) == replace_range(inp, start, end, text)

\* input.replace_range(start..(end + 3), &text)
splice(inp, start, end, text) == replace_range(inp, start, end + 3, text)

\* the end of Pattern::replace_at: splice on Ok, propagate otherwise
finish_replace(r, pat, inp, start, end) ==
    IF r.status = "ok"
    THEN Outcome("ok", splice(inp, start, end, r.text), r, pat, start, end)
    ELSE Outcome(r.status, buffer_on_failure(inp, start, end), r, pat, start, end)

\* Pattern::replace_at
Pattern_replace_at(pat, inp, start, end, a, env) ==
    finish_replace(resolve(pat, a, env), pat, inp, start, end)

(***************************************************************************)
(* replace_at: find the closing delimiter, dispatch on the sigil.          *)
(***************************************************************************)
\* a dispatcher that takes a suffix it cannot parse for an unknown placeholder
parsed_number_or_skip(tag, suffix, n) ==
    IF n.ok THEN [status |-> "ok", pat |-> Pattern(tag, <<>>, n.val)]
    ELSE [status |-> "unrecognized", pat |-> Pattern("Unrecognized", suffix, 0)]

\* a numeric sigil: Pattern::X(pattern[n..].parse()?)
parsed_number(tag, suffix, n) ==
    IF n.ok THEN [status |-> "ok", pat |-> Pattern(tag, <<>>, n.val)]
    ELSE [status |-> "parse_error", pat |-> Pattern(tag, suffix, 0)]

numeric(tag, suffix) == parsed_number(tag, suffix, ParseUsize(suffix))

\* a string sigil: Pattern::X(pattern[n..].to_string())
verbatim(tag, suffix) == [status |-> "ok", pat |-> Pattern(tag, suffix, 0)]

\* a remainder that drops one character whatever the sigil: pattern[1..]
after_first_char(pattern, sigil) == Slice(pattern, 1, Len(pattern))

\* pattern[sigil.len()..]
after_sigil(pattern, sigil) == Slice(pattern, Len(sigil), Len(pattern))

\* the if / else if chain over pattern.starts_with(..)
parse_pattern(pattern) ==
    IF starts_with(pattern, SigilPath)
    THEN verbatim("Path", after_sigil(pattern, SigilPath))
    ELSE IF starts_with(pattern, SigilPositional)
    THEN numeric("Positional", after_sigil(pattern, SigilPositional))
    ELSE IF starts_with(pattern, SigilArticlePos)
    THEN numeric("ArticlePositional", after_sigil(pattern, SigilArticlePos))
    ELSE IF starts_with(pattern, SigilPreviewLatest)
    THEN numeric("PreviewLatest", after_sigil(pattern, SigilPreviewLatest))
    ELSE IF starts_with(pattern, SigilArticleLatest)
    THEN numeric("ArticleLatest", after_sigil(pattern, SigilArticleLatest))
    ELSE IF starts_with(pattern, SigilPreviewTitle)
    THEN verbatim("PreviewTitle", after_sigil(pattern, SigilPreviewTitle))
    ELSE IF starts_with(pattern, SigilArticleTitle)
    THEN verbatim("ArticleTitle", after_sigil(pattern, SigilArticleTitle))
    ELSE [status |-> "unrecognized", pat |-> Pattern("Unrecognized", pattern, 0)]

\* input[start..].find("}}}")
find_close(inp, start) == find(Slice(inp, start, Len(inp)), CLOSE)

\* the parsed pattern's way through replace_at: return Ok(()), `?`, or resolve
dispatch(parsed, inp, start, end, a, env) ==
    CASE parsed.status = "unrecognized" ->
            Outcome("noop", inp, Resolved(<<>>, <<>>), parsed.pat, start, end)
      [] parsed.status = "parse_error" ->
            Outcome("err", buffer_on_failure(inp, start, end),
                    Failed(Error("Parse", parsed.pat.str), <<>>), parsed.pat, start, end)
      [] parsed.status = "ok" ->
            Pattern_replace_at(parsed.pat, inp, start, end, a, env)

\* if let Some(len) = .. { .. } else { Ok(()) }
replace_at_from(inp, start, len, a, env) ==
    IF len = None
    THEN Outcome("noop", inp, Resolved(<<>>, <<>>), Pattern("Unterminated", <<>>, 0),
                 start, None)
    ELSE dispatch(parse_pattern(Slice(inp, start + 3, start + len)), inp, start, start + len,
                  a, env)

\* replace_at
replace_at(inp, start, a, env) == replace_at_from(inp, start, find_close(inp, start), a, env)

(***************************************************************************)
(* The inputs the model draws search_replace's arguments from.             *)
(***************************************************************************)
TitleT == <<"T">>
TitleU == <<"U">>
TitleG == <<"G">>
TitleZ == <<"Z">>
AuthorA == <<"A">>
AuthorB == <<"B">>

Article(path, title, cdate, author) ==
    [path |-> path, title |-> title, cdate |-> cdate, author |-> author]

R1 == Article(HiTxt, TitleT, 2, AuthorA)
R2 == Article(NoteMd, TitleU, 1, AuthorB)
R3 == Article(HiTxt, TitleT, 3, AuthorB)
R4 == Article(GoneTxt, TitleG, 1, AuthorA)

Tables ==
    {t \in {<<>>, <<R1>>, <<R4>>, <<R1, R2>>, <<R1, R3>>, <<R4, R2>>, <<R1, R2, R4>>} :
        Len(t) <= MaxRows}

ArgLists ==
    {a \in {<<>>, <<HiTxt>>, <<NoteMd, GoneTxt>>, <<BracePath, EscapePath>>,
            <<HiTxt, NoteMd, GoneTxt>>} : Len(a) <= MaxArgs}

NumericSuffixes == {<<Digits[n + 1]>> : n \in 0..MaxIndex} \cup {<<>>, <<"x">>, <<"+", "1">>}

Placeholder(sigil, payload) == OPEN \o sigil \o payload \o CLOSE

Placeholders ==
    {Placeholder(s, n) : s \in {SigilPositional, SigilArticlePos, SigilPreviewLatest,
                                SigilArticleLatest}, n \in NumericSuffixes}
    \cup {Placeholder(SigilPath, p) : p \in {HiTxt, NoteMd, GoneTxt, EscapePath, DTxt, ITxt}}
    \cup {Placeholder(s, t) : s \in {SigilPreviewTitle, SigilArticleTitle},
                              t \in {TitleT, TitleU, TitleG, TitleZ}}
    \cup {Placeholder(<<>>, <<>>), Placeholder(<<"{">>, SigilPath \o HiTxt),
          Placeholder(<<>>, <<"x">>)}
    \cup {Placeholder(SigilPath, SigilPositional \o <<"1">>),
          Placeholder(SigilPositional, SigilPath \o HiTxt),
          Placeholder(<<>>, <<"a", "r", "t", "i", "c", "l", "e">>),
          Placeholder(SigilArticleTitle, SigilPositional \o <<"1">>),
          Placeholder(SigilPreviewLatest, <<" ">> \o TitleT)}
    \cup {OPEN, OPEN \o SigilPath \o HiTxt}

Heads == {<<>>, <<"a">>}

Tails ==
    {<<>>, <<"b">>, <<"}">>, Placeholder(SigilPath, HiTxt), Placeholder(SigilPath, GoneTxt),
     <<"{">> \o SigilPath \o HiTxt \o CLOSE}

Templates == {h \o p \o t : h \in Heads, p \in Placeholders \cup {<<>>}, t \in Tails}

NoLast ==
    [status |-> "none", before |-> <<>>, after |-> <<>>, text |-> <<>>, err |-> NoError,
     calls |-> <<>>, pat |-> Pattern("None", <<>>, 0), start |-> None, end |-> None,
     storage_up |-> TRUE]

Init ==
    /\ input \in Templates
    /\ args \in ArgLists
    /\ articles \in Tables
    /\ overflow_checks \in BOOLEAN
    /\ pc = "scanning"
    /\ result = NoError
    /\ calls = <<>>
    /\ input0 = input
    /\ last = NoLast
    /\ runs = 0
    /\ spliced = <<>>

(***************************************************************************)
(* search_replace: one action per way a loop iteration ends.               *)
(***************************************************************************)
Envs == {[up |-> u, rows |-> r] : u \in BOOLEAN, r \in OrderByCdate(articles)}

\* a loop that does not look at what find returned: unwrap_or(0)
on_find_unchecked(inp, idx, a, env) == replace_at(inp, IF idx = None THEN 0 ELSE idx, a, env)

\* match input.find("{{{") { Some(idx) => replace_at(client, input, idx, args) .. }
on_find(inp, idx, a, env) ==
    IF idx = None
    THEN Outcome("none", inp, Resolved(<<>>, <<>>), Pattern("None", <<>>, 0), None, None)
    ELSE replace_at(inp, idx, a, env)

\* a scan that resumes where the previous replacement ended
scan_resuming(inp) ==
    IF last.status # "ok" THEN find(inp, OPEN)
    ELSE IF find(Slice(inp, last.start + Len(last.text), Len(inp)), OPEN) = None THEN None
    ELSE last.start + Len(last.text) + find(Slice(inp, last.start + Len(last.text), Len(inp)), OPEN)

\* input.find("{{{"): every scan starts at offset 0
scan(inp) == find(inp, OPEN)

\* a loop that takes the rightmost opening delimiter: input.rfind("{{{")
iteration_rightmost(inp, a, env) ==
    on_find(inp, IF find(inp, OPEN) = None THEN None
                 ELSE last_of({i \in 0..(Len(inp) - 3) : Slice(inp, i, i + 3) = OPEN}), a, env)

\* one iteration of the loop of search_replace
iteration(inp, a, env) == on_find(inp, scan(inp), a, env)

\* the iteration made a query
queried(cs) == \E i \in 1..Len(cs) : cs[i].op \in {"query", "query_one", "query_opt"}

\* what the iteration did; storage_up tells whether the storage was there
\* for the query it made
Record(o, up) ==
    [status |-> o.status, before |-> input, after |-> o.input, text |-> o.text, err |-> o.err,
     calls |-> o.calls, pat |-> o.pat, start |-> o.start, end |-> o.end,
     storage_up |-> queried(o.calls) => up]

\* the span input.replace_range replaced, and the text it put there
Splice(o) == [start |-> o.start, end |-> o.end, text |-> o.text]

\* the loop's state after an iteration that ended as `status`
Iterate(o, status, up) ==
    /\ o.status = status
    /\ input' = o.input
    /\ calls' = calls \o o.calls
    /\ last' = Record(o, up)
    /\ result' = o.err
    /\ spliced' = IF status = "ok" THEN Append(spliced, Splice(o)) ELSE spliced

\* replace_at(..).await? was Ok(()) after a splice: the loop goes on
Expand ==
    /\ pc = "scanning"
    /\ \E env \in Envs : Iterate(iteration(input, args, env), "ok", env.up)
    /\ UNCHANGED <<args, articles, overflow_checks, pc, input0, runs>>

\* a loop that gives up when an iteration changed nothing: it returns Ok(())
StallReturns ==
    /\ pc = "scanning"
    /\ \E env \in Envs : Iterate(iteration(input, args, env), "noop", env.up)
    /\ pc' = "done"
    /\ runs' = runs + 1
    /\ UNCHANGED <<args, articles, overflow_checks, input0>>

\* replace_at(..).await? was Ok(()) and the buffer is as it was: the loop goes on
Stall ==
    /\ pc = "scanning"
    /\ \E env \in Envs : Iterate(iteration(input, args, env), "noop", env.up)
    /\ UNCHANGED <<args, articles, overflow_checks, pc, input0, runs>>

\* replace_at(..).await? was Err(e): search_replace returns it
Abort ==
    /\ pc = "scanning"
    /\ \E env \in Envs : Iterate(iteration(input, args, env), "err", env.up)
    /\ pc' = "error"
    /\ UNCHANGED <<args, articles, overflow_checks, input0, runs>>

\* replace_at panicked: the task unwinds and nothing is returned
Unwind ==
    /\ pc = "scanning"
    /\ \E env \in Envs : Iterate(iteration(input, args, env), "panic", env.up)
    /\ pc' = "panic"
    /\ UNCHANGED <<args, articles, overflow_checks, input0, runs>>

\* None => break Ok(())
Break ==
    /\ pc = "scanning"
    /\ scan(input) = None
    /\ pc' = "done"
    /\ runs' = runs + 1
    /\ UNCHANGED <<input, args, articles, overflow_checks, result, calls, input0, last, spliced>>

\* the caller runs search_replace again on the buffer a call left behind
CallAgain ==
    /\ pc = "done"
    /\ runs <= MaxRuns
    /\ pc' = "scanning"
    /\ input0' = input
    /\ calls' = <<>>
    /\ last' = NoLast
    /\ spliced' = <<>>
    /\ UNCHANGED <<input, args, articles, overflow_checks, result, runs>>

Next == Expand \/ Stall \/ Abort \/ Unwind \/ Break \/ CallAgain

Spec == Init /\ [][Next]_vars

(***************************************************************************)
(* Vocabulary of the properties, stated on the buffer alone.               *)
(***************************************************************************)
Sigils ==
    {SigilPath, SigilPositional, SigilArticlePos, SigilPreviewLatest, SigilArticleLatest,
     SigilPreviewTitle, SigilArticleTitle}

\* offsets at which an occurrence of pat starts in buf
Occurrences(buf, pat) == {i \in 0..(Len(buf) - Len(pat)) : SubSeq(buf, i + 1, i + Len(pat)) = pat}

HasOpen(buf) == Occurrences(buf, OPEN) # {}

\* offset of the leftmost "{{{"
FirstOpen(buf) == Min(Occurrences(buf, OPEN))

\* offsets of the "}}}" at or after the leftmost "{{{"
ClosesAfterOpen(buf) == {i \in Occurrences(buf, CLOSE) : i >= FirstOpen(buf)}

\* the leftmost "{{{" has no "}}}" after it
UnterminatedOpen(buf) == HasOpen(buf) /\ ClosesAfterOpen(buf) = {}

\* the text between the leftmost "{{{" and the first "}}}" after it
FirstPayload(buf) == SubSeq(buf, FirstOpen(buf) + 4, Min(ClosesAfterOpen(buf)))

\* the leftmost placeholder is closed and its payload starts with no sigil
UnrecognizedOpen(buf) ==
    /\ HasOpen(buf)
    /\ ClosesAfterOpen(buf) # {}
    /\ \A sg \in Sigils : ~(Len(FirstPayload(buf)) >= Len(sg)
                            /\ SubSeq(FirstPayload(buf), 1, Len(sg)) = sg)

\* the loop is back at its head holding the buffer the last iteration began
\* with: every further iteration computes the same thing from the same state
StalledAfter(tag) ==
    /\ pc = "scanning"
    /\ last.status # "none"
    /\ last.pat.tag = tag
    /\ input = last.before

\* the last iteration parsed its placeholder as the variant `tag`
LastIs(tag) == last.pat.tag = tag /\ last.err.kind # "Parse" /\ last.status # "none"

\* the storage was there for the last iteration's query: if the query
\* failed, it failed on the rows it found
StorageAnswered == last.storage_up

RowsWith(col, key) == {i \in 1..Len(articles) : articles[i][col] = key}

(***************************************************************************)
(* C1: search_replace does not stall on an unterminated placeholder: an    *)
(* iteration whose leftmost "{{{" has no "}}}" after it never leaves the   *)
(* loop at its head with the buffer unchanged, to re-process the same      *)
(* offset for ever; the call goes on to return.                            *)
(***************************************************************************)
C1_UnterminatedNoStall ==
    ~(StalledAfter("Unterminated") /\ UnterminatedOpen(input))

(***************************************************************************)
(* C2: search_replace does not stall on an unrecognized placeholder: an    *)
(* iteration whose leftmost "{{{...}}}" payload starts with none of the    *)
(* seven sigils never leaves the loop at its head with the buffer          *)
(* unchanged; the call goes on to return.                                  *)
(***************************************************************************)
C2_UnrecognizedNoStall ==
    ~(StalledAfter("Unrecognized") /\ UnrecognizedOpen(input))

(***************************************************************************)
(* C3: partial failure.  When a resolution fails with an error,            *)
(* search_replace returns that error at once: the failing call is the      *)
(* last collaborator call made, and the buffer is the buffer as it was     *)
(* just before the failing iteration.                                      *)
(***************************************************************************)
ErrorKinds == {"Parse", "InvalidPath", "Io", "Storage", "ResourceNotFound"}

\* every call of the iteration succeeded but its last one
FailedOnLastCall(cs) == \A i \in 1..Len(cs) : cs[i].ok <=> i < Len(cs)

\* C3: an error ends the call at once with the buffer of before the failing iteration
C3_PartialFailure ==
    (pc = "error" \/ last.status = "err") =>
        /\ pc = "error"
        /\ last.status = "err"
        /\ result = last.err
        /\ result.kind \in ErrorKinds
        /\ input = last.before
        /\ FailedOnLastCall(last.calls)
        /\ (last.calls = <<>>) <=> (result.kind = "Parse")
        /\ Len(calls) >= Len(last.calls)
        /\ SubSeq(calls, Len(calls) - Len(last.calls) + 1, Len(calls)) = last.calls

\* an earlier placeholder was expanded, then a file read failed
C3_Witness ==
    /\ pc = "error"
    /\ result.kind = "Io"
    /\ input # input0
    /\ last.start > 0
    /\ Len(calls) > Len(last.calls)

(***************************************************************************)
(* C4: on a buffer with no "{{{", search_replace returns Ok, leaves the    *)
(* buffer unchanged and calls no collaborator; so does a second call on    *)
(* the buffer it left.                                                     *)
(***************************************************************************)
C4_NoOpenIsNoOp ==
    ~HasOpen(input0) =>
        /\ pc \in {"scanning", "done"}
        /\ input = input0
        /\ calls = <<>>
        /\ last = NoLast
        /\ result = NoError

\* the second call on the buffer of a first call that expanded something
C4_Witness ==
    /\ pc = "done"
    /\ runs = 2
    /\ ~HasOpen(input0)
    /\ input0 # <<>>

(***************************************************************************)
(* C5: an ArticleTitle placeholder whose title matches exactly one row,    *)
(* whose file passes the sandbox and does not exist, makes search_replace  *)
(* return ResourceNotFound naming the path, the buffer left unchanged.     *)
(***************************************************************************)
\* the one row with the title, when there is exactly one
TitledRow(title) == articles[CHOOSE i \in RowsWith("title", title) : TRUE]

\* C5: a missing backing file of the one titled article is a ResourceNotFound error
C5_ArticleTitleNotFound ==
    (/\ LastIs("ArticleTitle")
     /\ StorageAnswered
     /\ Cardinality(RowsWith("title", last.pat.str)) = 1
     /\ PublicPath_try_from(TitledRow(last.pat.str).path).ok
     /\ ~exists(PublicPath_try_from(TitledRow(last.pat.str).path).path))
    => /\ pc = "error"
       /\ result = Error("ResourceNotFound", PublicPath_try_from(TitledRow(last.pat.str).path).path)
       /\ input = last.before

(***************************************************************************)
(* C6: a Positional or ArticlePositional placeholder whose 1-based index   *)
(* is outside 1..len(args) makes search_replace return an error to its     *)
(* caller, never a fault, and leaves the buffer unchanged.                 *)
(***************************************************************************)
C6_IndexOutOfRangeIsError ==
    ((LastIs("Positional") \/ LastIs("ArticlePositional")) /\ last.pat.num \notin 1..Len(args))
    => /\ pc = "error"
       /\ result.kind \in ErrorKinds
       /\ input = last.before

(***************************************************************************)
(* C7: "{{{preview~n}}}" with n accepted by the parser and not in 1..N     *)
(* (N the number of article rows) is replaced by the empty string, with    *)
(* no error and no fault.                                                  *)
(***************************************************************************)
C7_PreviewOutOfRangeIsEmpty ==
    (LastIs("PreviewLatest") /\ StorageAnswered /\ last.pat.num \notin 1..Len(articles))
    => /\ last.status = "ok"
       /\ last.text = <<>>
       /\ pc \in {"scanning", "done"}

(***************************************************************************)
(* C8: exactly-one lookup.  For ArticlePositional (key args[index-1]       *)
(* against path) and ArticleTitle (key against title), zero or more than   *)
(* one matching row fails with a storage error that search_replace         *)
(* returns: nothing is spliced, no file is touched, the buffer is          *)
(* unchanged.                                                              *)
(***************************************************************************)
\* the number of rows the last iteration's lookup matches
LookupMatches ==
    IF last.pat.tag = "ArticleTitle"
    THEN Cardinality(RowsWith("title", last.pat.str))
    ELSE Cardinality(RowsWith("path", args[last.pat.num]))

\* C8: zero or several matching rows are a storage error, nothing read or spliced
C8_ExactlyOne ==
    (/\ LastIs("ArticleTitle") \/ (LastIs("ArticlePositional") /\ last.pat.num \in 1..Len(args))
     /\ LookupMatches # 1)
    => /\ pc = "error"
       /\ result.kind = "Storage"
       /\ input = last.before
       /\ Len(last.calls) = 1
       /\ last.calls[1].op = "query_one"
       /\ ~last.calls[1].ok

\* two rows share the path that "{{{article%i}}}" names
C8_Witness ==
    /\ LastIs("ArticlePositional")
    /\ last.pat.num \in 1..Len(args)
    /\ LookupMatches = 2
    /\ pc = "error"

\* no row has the title that "{{{article <title>}}}" names
C8_WitnessTitle ==
    /\ LastIs("ArticleTitle")
    /\ LookupMatches = 0
    /\ Len(articles) > 0
    /\ pc = "error"

(***************************************************************************)
(* C9: one iteration on a resolvable placeholder replaces exactly the      *)
(* span from the first "{{{" through the last character of the first       *)
(* "}}}" after it, [start, end+3), with the resolved text; every byte      *)
(* before start and from end+3 on is unchanged.  "a{{{/hi.txt}}}b" with    *)
(* hi.txt = "HI" becomes "aHIb".                                           *)
(***************************************************************************)
BufA == <<"a">> \o OPEN \o <<"/">> \o HiTxt \o CLOSE \o <<"b">>

\* C9: exactly [start, end+3) is replaced by the resolved text
C9_ExactSpan ==
    /\ last.status = "ok" =>
         /\ last.start = FirstOpen(last.before)
         /\ last.end = Min(ClosesAfterOpen(last.before))
         /\ input = SubSeq(last.before, 1, last.start) \o last.text
                      \o SubSeq(last.before, last.end + 4, Len(last.before))
    /\ (input0 = BufA /\ runs = 0 /\ pc = "done") => input = <<"a", "H", "I", "b">>

\* text stands on both sides of the placeholder that was replaced
C9_Witness ==
    /\ input0 = BufA
    /\ pc = "done"
    /\ last.status = "ok"
    /\ last.start = 1
    /\ last.end + 3 < Len(last.before)
    /\ input = <<"a", "H", "I", "b">>

(***************************************************************************)
(* C10: "{{{%i}}}" with args[i-1] = p resolves as "{{{/p}}}" does: the     *)
(* same collaborator calls, the same outcome and the same buffer.          *)
(***************************************************************************)
\* the buffer of the last iteration with its placeholder written "{{{/p}}}"
AsPath(p) ==
    SubSeq(last.before, 1, last.start) \o OPEN \o <<"/">> \o p \o CLOSE
        \o SubSeq(last.before, last.end + 4, Len(last.before))

\* the iteration on buf does what the last iteration did
SameAsLast(buf) ==
    \A env \in Envs :
        /\ iteration(buf, args, env).status = last.status
        /\ iteration(buf, args, env).err = last.err
        /\ iteration(buf, args, env).calls = last.calls
        /\ iteration(buf, args, env).text = last.text
        /\ last.status = "ok" => iteration(buf, args, env).input = last.after
        /\ last.status # "ok" => iteration(buf, args, env).input = buf

\* "{{{/p}}}" ends where p ends: p holds no "}}}" and does not end in "}"
ClosesAtEnd(p) == Occurrences(p \o CLOSE, CLOSE) = {Len(p)}

\* C10 as stated: for every in-range index i and every path p, "{{{%i}}}"
\* does what "{{{/p}}}" does
C10_PositionalAsPath_Any ==
    (LastIs("Positional") /\ last.pat.num \in 1..Len(args))
    => SameAsLast(AsPath(args[last.pat.num]))

\* C10 for the paths "{{{/p}}}" can spell: "{{{%i}}}" does what "{{{/p}}}" does
\* when p holds no "}}}" and does not end in "}"
C10_PositionalAsPath ==
    (LastIs("Positional") /\ last.pat.num \in 1..Len(args) /\ ClosesAtEnd(args[last.pat.num]))
    => SameAsLast(AsPath(args[last.pat.num]))

\* "{{{%1}}}" read and rendered a markdown file
C10_Witness ==
    /\ LastIs("Positional")
    /\ last.pat.num \in 1..Len(args)
    /\ ClosesAtEnd(args[last.pat.num])
    /\ last.status = "ok"
    /\ Len(last.calls) = 3

(***************************************************************************)
(* C11: in every variant that reads a file, the text spliced for the file  *)
(* is the markdown renderer's output if and only if the validated path's   *)
(* extension is "md"; otherwise it is the raw contents of the file, and    *)
(* the renderer is not invoked.                                            *)
(***************************************************************************)
FileVariants == {"Path", "Positional", "ArticlePositional", "ArticleLatest", "ArticleTitle"}

\* the calls of cs made to the collaborator op
CallsTo(cs, op) == SelectSeq(cs, LAMBDA c : c.op = op)

\* the file name of path ends in ".md" and is longer than that
HasMdExtension(path) ==
    /\ Len(path) >= 4
    /\ SubSeq(path, Len(path) - 2, Len(path)) = <<".", "m", "d">>
    /\ path[Len(path) - 3] # "/"

\* what is on disk at path
OnDisk(path) == (CHOOSE f \in Files : f.path = path).text

\* the part of the spliced text that stands for the file: all of it for Path
\* and Positional, the {contents} of the article markup otherwise
SplicedContents(tag, text) ==
    IF tag \in {"Path", "Positional"} THEN text
    ELSE SubSeq(text, Min(Occurrences(text, ArticleBr)) + Len(ArticleBr) + 1,
                Len(text) - Len(ArticleClose))

\* the iteration read the file at path and spliced: rendered iff ".md"
RenderedIffMd(path) ==
    IF HasMdExtension(path)
    THEN /\ CallsTo(last.calls, "render") = <<Call("render", OnDisk(path), TRUE)>>
         /\ SplicedContents(last.pat.tag, last.text) = push_html(OnDisk(path))
    ELSE /\ CallsTo(last.calls, "render") = <<>>
         /\ SplicedContents(last.pat.tag, last.text) = OnDisk(path)

\* C11: a file that was read is spliced rendered iff its extension is "md", raw otherwise
C11_MarkdownIffMd ==
    /\ CallsTo(last.calls, "render") # <<>> => CallsTo(last.calls, "read") # <<>>
    /\ (last.status = "ok" /\ CallsTo(last.calls, "read") # <<>>) =>
         /\ last.pat.tag \in FileVariants
         /\ Len(CallsTo(last.calls, "read")) = 1
         /\ RenderedIffMd(CallsTo(last.calls, "read")[1].arg)

\* "{{{article~n}}}" spliced the rendering of a markdown file
C11_Witness ==
    /\ LastIs("ArticleLatest")
    /\ last.status = "ok"
    /\ CallsTo(last.calls, "read") # <<>>
    /\ HasMdExtension(CallsTo(last.calls, "read")[1].arg)
    /\ SplicedContents(last.pat.tag, last.text) = H1Open \o <<"T">> \o H1Close

\* "{{{/hi.txt}}}" spliced a file that is not markdown as it is
C11_WitnessRaw ==
    /\ LastIs("Path")
    /\ last.status = "ok"
    /\ last.text = HiBody
    /\ CallsTo(last.calls, "render") = <<>>

(***************************************************************************)
(* C12: a numeric-suffix placeholder ("%", "article%", "preview~",         *)
(* "article~") whose suffix is empty or not a decimal number makes         *)
(* search_replace return a parse error: the placeholder is not skipped, no *)
(* collaborator is invoked for it, and the iteration leaves the buffer     *)
(* unchanged.                                                              *)
(***************************************************************************)
NumericSigils == {SigilPositional, SigilArticlePos, SigilPreviewLatest, SigilArticleLatest}

\* buf has a closed leftmost placeholder
ClosedOpen(buf) == HasOpen(buf) /\ ClosesAfterOpen(buf) # {}

HasPrefix(s, p) == Len(s) >= Len(p) /\ SubSeq(s, 1, Len(p)) = p

\* a decimal number: one or more decimal digits, with an optional "+" sign
DecimalNumber(s) ==
    \E sign \in {<<>>, <<"+">>} :
        /\ HasPrefix(s, sign)
        /\ Len(s) > Len(sign)
        /\ \A i \in (Len(sign) + 1)..Len(s) : s[i] \in {Digits[d] : d \in 1..10}

\* the leftmost placeholder of buf has a numeric sigil and a suffix that is no number
MalformedNumeric(buf) ==
    /\ ClosedOpen(buf)
    /\ LET payload == FirstPayload(buf)
       IN  \E sg \in NumericSigils :
               /\ HasPrefix(payload, sg)
               /\ ~DecimalNumber(SubSeq(payload, Len(sg) + 1, Len(payload)))

\* C12: a numeric sigil with a suffix that is no number is a parse error, nothing called
C12_MalformedNumericIsParseError ==
    (last.status # "none" /\ MalformedNumeric(last.before)) =>
        /\ last.status = "err"
        /\ pc = "error"
        /\ result.kind = "Parse"
        /\ last.calls = <<>>
        /\ input = last.before

\* "{{{article~}}}": the suffix is empty
C12_Witness ==
    /\ pc = "error"
    /\ result.kind = "Parse"
    /\ last.pat.tag = "ArticleLatest"
    /\ MalformedNumeric(last.before)
    /\ FirstPayload(last.before) = SigilArticleLatest

\* "{{{%x}}}": the suffix is not a number
C12_WitnessLetter ==
    /\ pc = "error"
    /\ result.kind = "Parse"
    /\ FirstPayload(last.before) = <<"%", "x">>

(***************************************************************************)
(* C13: for 1 <= n <= N (N the number of article rows), "{{{preview~n}}}"  *)
(* is replaced by the preview markup of the row at index n-1 of the        *)
(* articles sorted by creation date ascending, built from that row's       *)
(* path, title, date and author and from nothing else.                     *)
(***************************************************************************)
\* <article><h2><a href="{path}">{title}</a></h2>{date} ~{author}</article>
PreviewOf(rec) ==
    <<"<", "a", "r", "t", "i", "c", "l", "e", ">", "<", "h", "2", ">",
      "<", "a", " ", "h", "r", "e", "f", "=", "\"">> \o rec.path \o <<"\"", ">">> \o rec.title
        \o <<"<", "/", "a", ">", "<", "/", "h", "2", ">">>
        \o <<"2", "0", "2", "0", "-", "0", "1", "-", "0", Digits[rec.cdate + 1]>>
        \o <<" ", "~">> \o rec.author \o <<"<", "/", "a", "r", "t", "i", "c", "l", "e", ">">>

\* row i of the table can stand at index n-1 when the rows are sorted by
\* creation date ascending: fewer than n rows are older, at least n are not newer
SortsAt(i, n) ==
    /\ Cardinality({j \in 1..Len(articles) : articles[j].cdate < articles[i].cdate}) < n
    /\ Cardinality({j \in 1..Len(articles) : articles[j].cdate <= articles[i].cdate}) >= n

\* C13: "{{{preview~n}}}" splices the preview of the n-th oldest article, one query made
C13_PreviewNth ==
    (LastIs("PreviewLatest") /\ StorageAnswered /\ last.pat.num \in 1..Len(articles)) =>
        /\ last.status = "ok"
        /\ \E i \in 1..Len(articles) : SortsAt(i, last.pat.num) /\ last.text = PreviewOf(articles[i])
        /\ last.calls = <<Call("query", <<>>, TRUE)>>
        /\ input = SubSeq(last.before, 1, last.start) \o last.text
                     \o SubSeq(last.before, last.end + 4, Len(last.before))

\* "{{{preview~1}}}" on a table that stores the newer article first
C13_Witness ==
    /\ LastIs("PreviewLatest")
    /\ last.status = "ok"
    /\ last.pat.num = 1
    /\ Len(articles) = 2
    /\ articles[1].cdate > articles[2].cdate
    /\ last.text = PreviewOf(articles[2])

\* two articles of one creation date: "{{{preview~1}}}" shows the one stored second
C13_WitnessTie ==
    /\ LastIs("PreviewLatest")
    /\ last.status = "ok"
    /\ last.pat.num = 1
    /\ Len(articles) = 2
    /\ articles[1].cdate = articles[2].cdate
    /\ last.text = PreviewOf(articles[2])

(***************************************************************************)
(* C14: one resolution (one loop iteration) issues at most one storage     *)
(* query and at most one file read, and no write of any kind; Path and     *)
(* Positional issue no storage query; PreviewLatest and PreviewTitle       *)
(* issue no file read and no sandbox validation.                           *)
(***************************************************************************)
StorageOps == {"query", "query_one", "query_opt"}

\* the collaborator operations that change nothing: selects, path
\* validation, the existence test, the read and the rendering
ReadOnlyOps == StorageOps \cup {"sandbox", "exists", "read", "render"}

StorageCalls(cs) == SelectSeq(cs, LAMBDA c : c.op \in StorageOps)

\* C14: at most one query and one read per iteration, none where the variant needs none
C14_SideEffects ==
    /\ \A i \in 1..Len(last.calls) : last.calls[i].op \in ReadOnlyOps
    /\ Len(StorageCalls(last.calls)) <= 1
    /\ Len(CallsTo(last.calls, "read")) <= 1
    /\ last.pat.tag \in {"Path", "Positional"} => StorageCalls(last.calls) = <<>>
    /\ last.pat.tag \in {"PreviewLatest", "PreviewTitle"} =>
         /\ CallsTo(last.calls, "read") = <<>>
         /\ CallsTo(last.calls, "exists") = <<>>
         /\ CallsTo(last.calls, "sandbox") = <<>>
    /\ last.status \in {"none", "noop"} => last.calls = <<>>

\* a full article: the one query and the one read were both made
C14_Witness ==
    /\ LastIs("ArticlePositional")
    /\ last.status = "ok"
    /\ Len(StorageCalls(last.calls)) = 1
    /\ Len(CallsTo(last.calls, "read")) = 1

\* a preview by title of an article that exists: the query and nothing else
C14_WitnessPreview ==
    /\ LastIs("PreviewTitle")
    /\ last.status = "ok"
    /\ last.text # <<>>
    /\ Len(last.calls) = 1

(***************************************************************************)
(* C15: if every placeholder of the buffer is closed, has a recognized     *)
(* sigil and resolves without error to text with no brace in it, then      *)
(* search_replace returns Ok after exactly one resolution per placeholder; *)
(* the resolutions happen strictly left to right, each one spliced before  *)
(* the next scan starts.                                                   *)
(***************************************************************************)
\* the placeholders of buf from offset `from` on, left to right: each runs
\* from a "{{{" to the first "}}}" after it, the next starts after that
RECURSIVE PlaceholdersFrom(_, _)
PlaceholdersFrom(buf, from) ==
    LET opens == {i \in Occurrences(buf, OPEN) : i >= from}
        closes == {i \in Occurrences(buf, CLOSE) : i >= Min(opens)}
    IN  IF opens = {} THEN <<>>
        ELSE IF closes = {} THEN <<[start |-> Min(opens), end |-> None]>>
        ELSE <<[start |-> Min(opens), end |-> Min(closes)]>>
                \o PlaceholdersFrom(buf, Min(closes) + 3)

PlaceholdersOf(buf) == PlaceholdersFrom(buf, 0)

\* every placeholder of buf is closed and its payload starts with a sigil
AllClosedRecognized(buf) ==
    LET ps == PlaceholdersOf(buf)
    IN  \A k \in 1..Len(ps) :
            /\ ps[k].end # None
            /\ \E sg \in Sigils : HasPrefix(SubSeq(buf, ps[k].start + 4, ps[k].end), sg)

BraceFree(text) == \A i \in 1..Len(text) : text[i] \notin {"{", "}"}

\* every splice of the call so far put brace-free text into the buffer
AllBraceFree == \A k \in 1..Len(spliced) : BraceFree(spliced[k].text)

\* by how much the first k splices moved what stands to their right
RECURSIVE Shift(_)
Shift(k) ==
    IF k = 0 THEN 0
    ELSE Shift(k - 1) + Len(spliced[k].text) - (spliced[k].end + 3 - spliced[k].start)

\* buf after the splices sp, made one after the other
RECURSIVE Applied(_, _)
Applied(buf, sp) ==
    IF sp = <<>> THEN buf
    ELSE Applied(SubSeq(buf, 1, sp[1].start) \o sp[1].text \o SubSeq(buf, sp[1].end + 4, Len(buf)),
                 Tail(sp))

\* C15: closed, recognized placeholders that resolve to brace-free text are
\* resolved once each, left to right, and then the call returns Ok
C15_OneEachInOrder ==
    (pc \in {"scanning", "done"} /\ AllBraceFree /\ AllClosedRecognized(input0)) =>
        LET ps == PlaceholdersOf(input0)
        IN  /\ last.status \in {"none", "ok"}
            /\ Len(spliced) <= Len(ps)
            /\ \A k \in 1..Len(spliced) :
                  /\ spliced[k].start = ps[k].start + Shift(k - 1)
                  /\ spliced[k].end = ps[k].end + Shift(k - 1)
            /\ input = Applied(input0, spliced)
            /\ HasOpen(input) <=> Len(spliced) < Len(ps)
            /\ pc = "done" => Len(spliced) = Len(ps)

\* two placeholders, resolved one after the other, and Ok returned
C15_Witness ==
    /\ pc = "done"
    /\ Len(spliced) = 2
    /\ Len(PlaceholdersOf(input0)) = 2
    /\ AllClosedRecognized(input0)
    /\ AllBraceFree
    /\ spliced[1].start < spliced[2].start
    /\ result = NoError

(***************************************************************************)
(* C16: every iteration rescans from offset 0, so an opening delimiter     *)
(* that resolved text introduces (wholly inside it, or formed by it        *)
(* joining braces of the buffer) is found and expanded on a later          *)
(* iteration of the same call; it is never left in the buffer when the     *)
(* call returns Ok.                                                        *)
(***************************************************************************)
\* the buffer after the first k splices of the call
AfterSplice(k) == Applied(input0, SubSeq(spliced, 1, k))

\* the "{{{" of the buffer after splice k that begin before the spliced text
\* ends: nothing left of the text held one, so the text brought them about
IntroducedBy(k) ==
    {i \in Occurrences(AfterSplice(k), OPEN) : i < spliced[k].start + Len(spliced[k].text)}

C16_WitnessJoined ==
    /\ input0 = OPEN \o <<"/">> \o DTxt \o CLOSE \o <<"{", "/">> \o HiTxt \o CLOSE
    /\ pc = "done"
    /\ Len(spliced) = 2
    /\ IntroducedBy(1) = {0}
    /\ input = HiBody

(***************************************************************************)
(* C17: dispatch is a total function of the payload's prefix: for every    *)
(* payload exactly one of the seven variants or "unrecognized" is chosen;  *)
(* testing "/" and "%" before the longer sigils gives the same variant and *)
(* the same remainder as testing the longest prefix first; path and title  *)
(* payloads are taken verbatim with only the sigil removed.                *)
(***************************************************************************)
\* the variant each sigil stands for
VariantOf(sg) ==
    CASE sg = <<"/">> -> "Path"
      [] sg = <<"%">> -> "Positional"
      [] sg = <<"a", "r", "t", "i", "c", "l", "e", "%">> -> "ArticlePositional"
      [] sg = <<"p", "r", "e", "v", "i", "e", "w", "~">> -> "PreviewLatest"
      [] sg = <<"a", "r", "t", "i", "c", "l", "e", "~">> -> "ArticleLatest"
      [] sg = <<"p", "r", "e", "v", "i", "e", "w", " ">> -> "PreviewTitle"
      [] sg = <<"a", "r", "t", "i", "c", "l", "e", " ">> -> "ArticleTitle"

\* the sigils the payload starts with
Matching(payload) == {sg \in Sigils : HasPrefix(payload, sg)}

\* the longest of them
Longest(sgs) == CHOOSE sg \in sgs : \A other \in sgs : Len(other) <= Len(sg)

Remainder(payload, sg) == SubSeq(payload, Len(sg) + 1, Len(payload))

\* the pattern of the last iteration is the variant of sg with payload's remainder
ChoseAs(payload, sg) ==
    /\ last.pat.tag = VariantOf(sg)
    /\ VariantOf(sg) \in {"Path", "PreviewTitle", "ArticleTitle"} =>
          /\ last.pat.str = Remainder(payload, sg)
          /\ last.err.kind # "Parse"
    /\ VariantOf(sg) \notin {"Path", "PreviewTitle", "ArticleTitle"} =>
          IF DecimalNumber(Remainder(payload, sg))
          THEN last.pat.num = ParseUsize(Remainder(payload, sg)).val /\ last.err.kind # "Parse"
          ELSE last.pat.str = Remainder(payload, sg) /\ last.err.kind = "Parse"

\* what the dispatch made of payload is what longest-prefix-first makes of it
DispatchedLongestFirst(payload) ==
    LET sgs == Matching(payload)
    IN  /\ Cardinality(sgs) <= 1
        /\ sgs = {} <=> last.pat.tag = "Unrecognized"
        /\ sgs = {} => (last.pat.str = payload /\ last.status = "noop")
        /\ sgs # {} => ChoseAs(payload, Longest(sgs))

\* no sigil begins with another one, so no order of the tests can matter
NoSigilInAnother == \A sg \in Sigils : \A other \in Sigils \ {sg} : ~HasPrefix(sg, other)

\* C17: the variant and the remainder are those of longest-prefix-first dispatch
C17_DispatchTotal ==
    NoSigilInAnother /\ (last.status # "none" /\ ClosedOpen(last.before)) =>
        /\ last.pat.tag \in {VariantOf(sg) : sg \in Sigils} \cup {"Unrecognized"}
        /\ LET payload == FirstPayload(last.before) IN DispatchedLongestFirst(payload)

\* "{{{article %1}}}": the title is "%1", verbatim
C17_Witness ==
    /\ last.pat.tag = "ArticleTitle"
    /\ last.pat.str = <<"%", "1">>
    /\ FirstPayload(last.before) = <<"a", "r", "t", "i", "c", "l", "e", " ", "%", "1">>

\* "{{{/%1}}}" is a path, "{{{article}}}" is no variant
C17_WitnessPath ==
    /\ last.pat.tag = "Path"
    /\ last.pat.str = <<"%", "1">>

C17_WitnessNone ==
    /\ last.pat.tag = "Unrecognized"
    /\ last.pat.str = <<"a", "r", "t", "i", "c", "l", "e">>

(***************************************************************************)
(* C18: the three full-article variants agree: for the same article record *)
(* and the same existing backing file, ArticleLatest, ArticlePositional    *)
(* and ArticleTitle each succeed and splice the same text                  *)
(* "<article><h2>{title}</h2>{date} ~{author}<br/>{contents}</article>";   *)
(* ArticleLatest with n out of range splices the empty string, with no     *)
(* error and no file read.                                                 *)
(***************************************************************************)
\* the record's file passes the sandbox and exists
Backed(rec) == PublicPath_try_from(rec.path).ok /\ exists(PublicPath_try_from(rec.path).path)

\* the contents of the record's file, rendered when it is markdown
ContentsOf(rec) ==
    IF HasMdExtension(PublicPath_try_from(rec.path).path)
    THEN push_html(OnDisk(PublicPath_try_from(rec.path).path))
    ELSE OnDisk(PublicPath_try_from(rec.path).path)

\* <article><h2>{title}</h2>{date} ~{author}<br/>{contents}</article>
ArticleOf(rec) ==
    <<"<", "a", "r", "t", "i", "c", "l", "e", ">", "<", "h", "2", ">">> \o rec.title
        \o <<"<", "/", "h", "2", ">">>
        \o <<"2", "0", "2", "0", "-", "0", "1", "-", "0", Digits[rec.cdate + 1]>>
        \o <<" ", "~">> \o rec.author \o <<"<", "b", "r", "/", ">">> \o ContentsOf(rec)
        \o <<"<", "/", "a", "r", "t", "i", "c", "l", "e", ">">>

\* the last iteration succeeded and spliced the article markup of rec
SplicedArticle(rec) == last.status = "ok" /\ last.text = ArticleOf(rec)

\* the one row with the path, when there is exactly one
RowAt(path) == articles[CHOOSE i \in RowsWith("path", path) : TRUE]

\* "{{{article%i}}}" with args[i-1] the path of exactly one, backed, record
PositionalHit ==
    /\ LastIs("ArticlePositional")
    /\ StorageAnswered
    /\ last.pat.num \in 1..Len(args)
    /\ Cardinality(RowsWith("path", args[last.pat.num])) = 1
    /\ Backed(RowAt(args[last.pat.num]))

\* "{{{article <title>}}}" with the title of exactly one, backed, record
TitleHit ==
    /\ LastIs("ArticleTitle")
    /\ StorageAnswered
    /\ Cardinality(RowsWith("title", last.pat.str)) = 1
    /\ Backed(TitledRow(last.pat.str))

\* "{{{article~n}}}" with the storage answering
LatestAsked == LastIs("ArticleLatest") /\ StorageAnswered

\* C18: each of the three variants splices the article markup of its record,
\* and "{{{article~n}}}" with n outside 1..N splices nothing
C18_ArticleVariantsAgree ==
    /\ PositionalHit => SplicedArticle(RowAt(args[last.pat.num]))
    /\ TitleHit => SplicedArticle(TitledRow(last.pat.str))
    /\ (LatestAsked /\ last.pat.num \in 1..Len(articles)) =>
          \E i \in 1..Len(articles) :
              /\ SortsAt(i, last.pat.num)
              /\ Backed(articles[i]) => SplicedArticle(articles[i])
              /\ ~Backed(articles[i]) => last.status = "err"
    /\ (LatestAsked /\ last.pat.num \notin 1..Len(articles)) =>
          /\ last.status = "ok"
          /\ last.text = <<>>
          /\ CallsTo(last.calls, "read") = <<>>

(***************************************************************************)
(* C19: "{{{preview <title>}}}" whose title matches no article row is      *)
(* replaced by the empty string and the pass continues with no error;      *)
(* with exactly one matching row it is replaced by the preview markup      *)
(* that PreviewLatest produces for that row.                               *)
(***************************************************************************)
\* "{{{preview~n}}}" can splice text for the record rec
PreviewLatestGives(rec, text) ==
    \E n \in 1..Len(articles) : \E env \in Envs :
        /\ env.up
        /\ env.rows[n] = rec
        /\ resolve(Pattern("PreviewLatest", <<>>, n), args, env).status = "ok"
        /\ resolve(Pattern("PreviewLatest", <<>>, n), args, env).text = text

\* C19: no row with the title is the empty string and no error, one row is its preview
C19_PreviewTitle ==
    (LastIs("PreviewTitle") /\ StorageAnswered) =>
        /\ RowsWith("title", last.pat.str) = {} =>
              /\ last.status = "ok"
              /\ last.text = <<>>
              /\ pc \in {"scanning", "done"}
              /\ result = NoError
              /\ input = SubSeq(last.before, 1, last.start)
                           \o SubSeq(last.before, last.end + 4, Len(last.before))
        /\ Cardinality(RowsWith("title", last.pat.str)) = 1 =>
              /\ last.status = "ok"
              /\ last.text = PreviewOf(TitledRow(last.pat.str))
              /\ PreviewLatestGives(TitledRow(last.pat.str), last.text)

\* no article is titled Z: the placeholder vanished, the next one was expanded
C19_Witness ==
    /\ HasPrefix(input0, OPEN \o <<"p", "r", "e", "v", "i", "e", "w", " ">>)
    /\ Len(articles) > 0
    /\ Len(spliced) = 2
    /\ spliced[1].text = <<>>
    /\ pc = "done"
    /\ result = NoError

\* one article has the title
C19_WitnessHit ==
    /\ LastIs("PreviewTitle")
    /\ Cardinality(RowsWith("title", last.pat.str)) = 1
    /\ last.status = "ok"
    /\ last.text = PreviewOf(TitledRow(last.pat.str))

(***************************************************************************)
(* C20: postcondition of success.  Whenever search_replace returns Ok(()), *)
(* the buffer holds no "{{{"; Ok is returned only from the state in which  *)
(* the scan from offset 0 finds no opening delimiter.                      *)
(***************************************************************************)
\* C20: a call that returned Ok left no "{{{", and returned on the buffer its
\* last scan saw
C20_OkMeansNoOpen ==
    pc = "done" =>
        /\ Occurrences(input, OPEN) = {}
        /\ last.status \in {"none", "ok"}
        /\ last.status = "ok" => input = last.after
        /\ last.status = "none" => input = input0
        /\ Len(calls) >= Len(last.calls)

\* a call that expanded a placeholder next to text that holds braces,
\* and returned
C20_Witness ==
    /\ pc = "done"
    /\ runs = 1
    /\ HasOpen(input0)
    /\ last.status = "ok"
    /\ \E i \in 1..Len(input) : input[i] \in {"{", "}"}

=============================================================================
